---- MODULE Spec2Model ----
(***************************************************************************)
(* Model of crates/eips/src/eip7002.rs: the WithdrawalRequest record, its  *)
(* derived RLP encoding (RlpEncodable / RlpDecodable) and its derived      *)
(* serde form (Serialize / Deserialize, amount through DisplayFromStr).    *)
(*                                                                         *)
(* The file holds no hand-written codec: the derives on lines 27-28 and   *)
(* the serde_as attribute on line 37 expand to calls into alloy_rlp,       *)
(* alloy_primitives (hex text of FixedBytes) and serde_with / core (decimal *)
(* text of u64).  The operators below follow those routines step by step.  *)
(*                                                                         *)
(* Bytes are integers 0..255, byte strings are sequences of bytes.  A u64  *)
(* is held as its eight big-endian bytes (u64::to_be_bytes), so the whole  *)
(* 64-bit range is representable.  Text is a sequence of one-character     *)
(* strings.                                                                *)
(***************************************************************************)
EXTENDS Integers, Sequences, FiniteSets, TLC

VARIABLES
    req,        \* the WithdrawalRequest value at hand
    buf,        \* the byte buffer produced by encode or handed to decode
    origin,     \* how buf came to be: "none", "encode", or the way it was altered
    decoded,    \* the Result of WithdrawalRequest::decode(&mut &buf[..])
    text,       \* the JSON object serde_json::to_string produced
    json,       \* the JSON object handed to serde_json::from_str
    form,       \* how json came to be: "none", "same", or the way it was altered
    parsed      \* the Result of serde_json::from_str(json)

vars == <<req, buf, origin, decoded, text, json, form, parsed>>

-----------------------------------------------------------------------------
(* Widths fixed by the field types *)

ADDRESS_LEN == 20
PUBKEY_LEN == 48
U64_BYTES == 8

(* alloy_rlp's header codes, as used by the derived encoder and decoder *)

EMPTY_STRING_CODE == 128
EMPTY_LIST_CODE == 192
LONG_STRING_CODE == 183
LONG_LIST_CODE == 247
SHORT_LIMIT == 56

-----------------------------------------------------------------------------
(* Byte-string helpers *)

Repeat(b, n) == [i \in 1..n |-> b]

Drop(s, n) == SubSeq(s, n + 1, Len(s))

Take(s, n) == SubSeq(s, 1, n)

RECURSIVE TrimLeadingZeros(_)
TrimLeadingZeros(s) ==
    IF s = <<>> THEN <<>>
    ELSE IF Head(s) = 0 THEN TrimLeadingZeros(Tail(s))
    ELSE s

\* usize::to_be_bytes with the leading zero bytes removed
RECURSIVE LenBeBytes(_)
LenBeBytes(n) ==
    IF n = 0 THEN <<>> ELSE Append(LenBeBytes(n \div 256), n % 256)

\* big-endian value of a short byte string (at most three bytes here)
RECURSIVE BeValue(_)
BeValue(s) ==
    IF s = <<>> THEN 0 ELSE BeValue(Take(s, Len(s) - 1)) * 256 + s[Len(s)]

\* static_left_pad without the leading-zero test
StaticLeftPadNoZeroCheck(data) ==
    IF Len(data) > U64_BYTES THEN [ok |-> FALSE, err |-> "Overflow", val |-> <<>>]
    ELSE [ok |-> TRUE, err |-> "",
          val |-> Repeat(0, U64_BYTES - Len(data)) \o data]

\* static_left_pad::<8>: Overflow, LeadingZero, or the bytes right-aligned
StaticLeftPad(data) ==
    IF Len(data) > U64_BYTES THEN [ok |-> FALSE, err |-> "Overflow", val |-> <<>>]
    ELSE IF data = <<>> THEN [ok |-> TRUE, err |-> "", val |-> Repeat(0, U64_BYTES)]
    ELSE IF data[1] = 0 THEN [ok |-> FALSE, err |-> "LeadingZero", val |-> <<>>]
    ELSE [ok |-> TRUE, err |-> "",
          val |-> Repeat(0, U64_BYTES - Len(data)) \o data]

-----------------------------------------------------------------------------
(* RLP encoding: Header::encode, <[u8; N]>::encode, u64::encode and the    *)
(* derived WithdrawalRequest::encode                                        *)

HeaderEncode(list, payload_length) ==
    IF payload_length < SHORT_LIMIT
    THEN << (IF list THEN EMPTY_LIST_CODE ELSE EMPTY_STRING_CODE) + payload_length >>
    ELSE LET be == LenBeBytes(payload_length)
         IN  << (IF list THEN LONG_LIST_CODE ELSE LONG_STRING_CODE) + Len(be) >> \o be

HeaderLength(payload_length) ==
    IF payload_length < SHORT_LIMIT THEN 1
    ELSE 1 + Len(LenBeBytes(payload_length))

BytesLength(s) ==
    IF Len(s) = 1 /\ s[1] < EMPTY_STRING_CODE THEN 1
    ELSE Len(s) + HeaderLength(Len(s))

BytesEncode(s) ==
    IF Len(s) = 1 /\ s[1] < EMPTY_STRING_CODE THEN s
    ELSE HeaderEncode(FALSE, Len(s)) \o s

U64Length(x) ==
    LET be == TrimLeadingZeros(x)
    IN  IF be = <<>> \/ (Len(be) = 1 /\ be[1] < EMPTY_STRING_CODE) THEN 1
        ELSE 1 + Len(be)

\* u64::encode that keeps the leading zero bytes of to_be_bytes
U64EncodeUntrimmed(x) ==
    IF TrimLeadingZeros(x) = <<>> THEN <<EMPTY_STRING_CODE>>
    ELSE <<EMPTY_STRING_CODE + Len(x)>> \o x

\* u64::encode that prefixes every non-zero value, single bytes included
U64EncodeAlwaysPrefixed(x) ==
    LET be == TrimLeadingZeros(x)
    IN  <<EMPTY_STRING_CODE + Len(be)>> \o be

U64Encode(x) ==
    LET be == TrimLeadingZeros(x)
    IN  IF be = <<>> THEN <<EMPTY_STRING_CODE>>
        ELSE IF Len(be) = 1 /\ be[1] < EMPTY_STRING_CODE THEN be
        ELSE <<EMPTY_STRING_CODE + Len(be)>> \o be

RlpPayloadLength(r) ==
    BytesLength(r.source_address) + BytesLength(r.validator_pubkey)
        + U64Length(r.amount)

\* the derived encode with the two fixed-width fields in the other order
RlpEncodeKeyFirst(r) ==
    HeaderEncode(TRUE, RlpPayloadLength(r))
        \o BytesEncode(r.validator_pubkey)
        \o BytesEncode(r.source_address)
        \o U64Encode(r.amount)

RlpEncode(r) ==
    HeaderEncode(TRUE, RlpPayloadLength(r))
        \o BytesEncode(r.source_address)
        \o BytesEncode(r.validator_pubkey)
        \o U64Encode(r.amount)

-----------------------------------------------------------------------------
(* RLP decoding: Header::decode, Header::decode_bytes, <[u8; N]>::decode,  *)
(* u64::decode and the derived WithdrawalRequest::decode.  Every function  *)
(* returns a Result; `rest` is the buffer left after the call.             *)

HdrErr(e) == [ok |-> FALSE, err |-> e, list |-> FALSE, len |-> 0, rest |-> <<>>]

HdrOk(l, n, r) ==
    IF Len(r) < n THEN HdrErr("InputTooShort")
    ELSE [ok |-> TRUE, err |-> "", list |-> l, len |-> n, rest |-> r]

HeaderDecode(b) ==
    IF b = <<>> THEN HdrErr("InputTooShort")
    ELSE LET first == b[1]
             after == Tail(b)
         IN  IF first < EMPTY_STRING_CODE THEN HdrOk(FALSE, 1, b)
             ELSE IF first <= LONG_STRING_CODE THEN
                 LET n == first - EMPTY_STRING_CODE
                 IN  IF n = 1 /\ after = <<>> THEN HdrErr("InputTooShort")
                     ELSE IF n = 1 /\ after[1] < EMPTY_STRING_CODE
                          THEN HdrErr("NonCanonicalSingleByte")
                     ELSE HdrOk(FALSE, n, after)
             ELSE IF first < EMPTY_LIST_CODE \/ first > LONG_LIST_CODE THEN
                 LET list == first > LONG_LIST_CODE
                     len_of_len == first - (IF list THEN LONG_LIST_CODE
                                                    ELSE LONG_STRING_CODE)
                 IN  IF Len(after) < len_of_len THEN HdrErr("InputTooShort")
                     ELSE IF after[1] = 0 THEN HdrErr("LeadingZero")
                     \* a length of four or more bytes is at least 2^24:
                     \* more than any buffer here holds
                     ELSE IF len_of_len > 3 THEN HdrErr("InputTooShort")
                     ELSE LET n == BeValue(Take(after, len_of_len))
                          IN  IF n < SHORT_LIMIT THEN HdrErr("NonCanonicalSize")
                              ELSE HdrOk(list, n, Drop(after, len_of_len))
             ELSE HdrOk(TRUE, first - EMPTY_LIST_CODE, after)

ItemErr(e) == [ok |-> FALSE, err |-> e, val |-> <<>>, rest |-> <<>>]

DecodeBytes(b) ==
    LET h == HeaderDecode(b)
    IN  IF ~h.ok THEN ItemErr(h.err)
        ELSE IF h.list THEN ItemErr("UnexpectedList")
        ELSE [ok |-> TRUE, err |-> "", val |-> Take(h.rest, h.len),
              rest |-> Drop(h.rest, h.len)]

\* <[u8; N]>::decode that takes a string of any length
FixedDecodeAnyLength(b, n) == DecodeBytes(b)

FixedDecode(b, n) ==
    LET s == DecodeBytes(b)
    IN  IF ~s.ok THEN s
        ELSE IF Len(s.val) # n THEN ItemErr("UnexpectedLength")
        ELSE s

U64Decode(b) ==
    LET s == DecodeBytes(b)
    IN  IF ~s.ok THEN s
        ELSE LET p == StaticLeftPad(s.val)
             IN  IF ~p.ok THEN ItemErr(p.err)
                 ELSE [ok |-> TRUE, err |-> "", val |-> p.val, rest |-> s.rest]

NoRequest ==
    [source_address |-> <<>>, validator_pubkey |-> <<>>, amount |-> <<>>]

DecErr(e) == [ok |-> FALSE, err |-> e, val |-> NoRequest, rest |-> <<>>]

\* the derived decode without the comparison of consumed and payload_length
RlpDecodeNoConsumedCheck(b) ==
    LET h == HeaderDecode(b)
    IN  IF ~h.ok THEN DecErr(h.err)
        ELSE IF ~h.list THEN DecErr("UnexpectedString")
        ELSE LET a == FixedDecode(h.rest, ADDRESS_LEN)
             IN  IF ~a.ok THEN DecErr(a.err)
                 ELSE LET k == FixedDecode(a.rest, PUBKEY_LEN)
                      IN  IF ~k.ok THEN DecErr(k.err)
                          ELSE LET m == U64Decode(k.rest)
                               IN  IF ~m.ok THEN DecErr(m.err)
                                   ELSE [ok |-> TRUE, err |-> "",
                                         val |-> [source_address |-> a.val,
                                                  validator_pubkey |-> k.val,
                                                  amount |-> m.val],
                                         rest |-> m.rest]

RlpDecode(b) ==
    LET h == HeaderDecode(b)
    IN  IF ~h.ok THEN DecErr(h.err)
        ELSE IF ~h.list THEN DecErr("UnexpectedString")
        ELSE IF Len(h.rest) < h.len THEN DecErr("InputTooShort")
        ELSE LET a == FixedDecode(h.rest, ADDRESS_LEN)
             IN  IF ~a.ok THEN DecErr(a.err)
                 ELSE LET k == FixedDecode(a.rest, PUBKEY_LEN)
                      IN  IF ~k.ok THEN DecErr(k.err)
                          ELSE LET m == U64Decode(k.rest)
                               IN  IF ~m.ok THEN DecErr(m.err)
                                   ELSE IF Len(h.rest) - Len(m.rest) # h.len
                                   THEN DecErr("ListLengthMismatch")
                                   ELSE [ok |-> TRUE, err |-> "",
                                         val |-> [source_address |-> a.val,
                                                  validator_pubkey |-> k.val,
                                                  amount |-> m.val],
                                         rest |-> m.rest]

-----------------------------------------------------------------------------
(* Hexadecimal text: const-hex's encode_prefixed and decode_to_slice, used *)
(* by the serde implementation of FixedBytes<N> and Address, and by        *)
(* Address::from_str                                                       *)

HEX_CHARS_LOWER ==
    <<"0", "1", "2", "3", "4", "5", "6", "7", "8", "9",
      "a", "b", "c", "d", "e", "f">>

HEX_CHARS_UPPER ==
    <<"0", "1", "2", "3", "4", "5", "6", "7", "8", "9",
      "A", "B", "C", "D", "E", "F">>

IsHexChar(c) ==
    \E i \in 1..16 : HEX_CHARS_LOWER[i] = c \/ HEX_CHARS_UPPER[i] = c

HexVal(c) ==
    (CHOOSE i \in 1..16 : HEX_CHARS_LOWER[i] = c \/ HEX_CHARS_UPPER[i] = c) - 1

RECURSIVE HexDigits(_)
HexDigits(bytes) ==
    IF bytes = <<>> THEN <<>>
    ELSE << HEX_CHARS_LOWER[(Head(bytes) \div 16) + 1],
            HEX_CHARS_LOWER[(Head(bytes) % 16) + 1] >> \o HexDigits(Tail(bytes))

RECURSIVE HexDigitsUpper(_)
HexDigitsUpper(bytes) ==
    IF bytes = <<>> THEN <<>>
    ELSE << HEX_CHARS_UPPER[(Head(bytes) \div 16) + 1],
            HEX_CHARS_UPPER[(Head(bytes) % 16) + 1] >> \o HexDigitsUpper(Tail(bytes))

\* encode_prefixed with the upper-case alphabet
EncodePrefixedUpper(bytes) == <<"0", "x">> \o HexDigitsUpper(bytes)

EncodePrefixed(bytes) == <<"0", "x">> \o HexDigits(bytes)

StripPrefix(s) ==
    IF Len(s) >= 2 /\ s[1] = "0" /\ s[2] = "x" THEN Drop(s, 2) ELSE s

TxtErr(e) == [ok |-> FALSE, err |-> e, val |-> <<>>]

TxtOk(v) == [ok |-> TRUE, err |-> "", val |-> v]

\* decode_to_slice that only refuses input shorter than the output
DecodeHexFixedLenient(s, n) ==
    LET digits == StripPrefix(s)
    IN  IF Len(digits) % 2 # 0 THEN TxtErr("OddLength")
        ELSE IF Len(digits) \div 2 < n THEN TxtErr("InvalidStringLength")
        ELSE IF \E i \in 1..Len(digits) : ~IsHexChar(digits[i])
             THEN TxtErr("InvalidHexCharacter")
        ELSE TxtOk([i \in 1..n |->
                      HexVal(digits[2 * i - 1]) * 16 + HexVal(digits[2 * i])])

DecodeHexFixed(s, n) ==
    LET digits == StripPrefix(s)
    IN  IF Len(digits) % 2 # 0 THEN TxtErr("OddLength")
        ELSE IF Len(digits) \div 2 # n THEN TxtErr("InvalidStringLength")
        ELSE IF \E i \in 1..Len(digits) : ~IsHexChar(digits[i])
             THEN TxtErr("InvalidHexCharacter")
        ELSE TxtOk([i \in 1..n |->
                      HexVal(digits[2 * i - 1]) * 16 + HexVal(digits[2 * i])])

-----------------------------------------------------------------------------
(* Decimal text of a u64: <u64 as Display>::fmt and <u64 as FromStr>,      *)
(* which DisplayFromStr uses for `amount`                                  *)

DEC_CHARS == <<"0", "1", "2", "3", "4", "5", "6", "7", "8", "9">>

IsDecChar(c) == \E i \in 1..10 : DEC_CHARS[i] = c

DecVal(c) == (CHOOSE i \in 1..10 : DEC_CHARS[i] = c) - 1

\* quotient of a big-endian number by ten, with the carry coming in
RECURSIVE Div10(_, _)
Div10(s, carry) ==
    IF s = <<>> THEN <<>>
    ELSE LET cur == carry * 256 + Head(s)
         IN  <<cur \div 10>> \o Div10(Tail(s), cur % 10)

RECURSIVE Mod10(_, _)
Mod10(s, carry) ==
    IF s = <<>> THEN carry ELSE Mod10(Tail(s), (carry * 256 + Head(s)) % 10)

RECURSIVE DecDigits(_)
DecDigits(x) ==
    IF TrimLeadingZeros(x) = <<>> THEN <<>>
    ELSE Append(DecDigits(Div10(x, 0)), DEC_CHARS[Mod10(x, 0) + 1])

U64Display(x) ==
    IF TrimLeadingZeros(x) = <<>> THEN <<"0">> ELSE DecDigits(x)

\* x * 10 + d on eight bytes; c is the carry out of the top byte (checked_mul,
\* checked_add)
RECURSIVE MulAdd10(_, _)
MulAdd10(s, d) ==
    IF s = <<>> THEN [b |-> <<>>, c |-> d]
    ELSE LET v == s[Len(s)] * 10 + d
             hi == MulAdd10(Take(s, Len(s) - 1), v \div 256)
         IN  [b |-> Append(hi.b, v % 256), c |-> hi.c]

RECURSIVE ParseDigits(_, _)
ParseDigits(digits, acc) ==
    IF digits = <<>> THEN TxtOk(acc)
    ELSE IF ~IsDecChar(Head(digits)) THEN TxtErr("InvalidDigit")
    ELSE LET r == MulAdd10(acc, DecVal(Head(digits)))
         IN  IF r.c # 0 THEN TxtErr("PosOverflow")
             ELSE ParseDigits(Tail(digits), r.b)

U64FromStr(s) ==
    IF s = <<>> THEN TxtErr("Empty")
    ELSE LET digits == IF Head(s) = "+" THEN Tail(s) ELSE s
         IN  IF digits = <<>> THEN TxtErr("InvalidDigit")
             ELSE ParseDigits(digits, Repeat(0, U64_BYTES))

-----------------------------------------------------------------------------
(* serde: the derived Serialize / Deserialize of WithdrawalRequest.  A JSON *)
(* object is a function from its keys to its values; a value is a string   *)
(* (str = TRUE) or a bare number (str = FALSE) with its text.  The derive  *)
(* carries no rename attribute, so the keys are the field names.           *)

FIELD_NAMES == {"source_address", "validator_pubkey", "amount"}

JsonString(t) == [str |-> TRUE, text |-> t]

JsonNumber(t) == [str |-> FALSE, text |-> t]

\* <FixedBytes<N> as Serialize>: lowercase, 0x-prefixed
FixedToJson(bytes) == JsonString(EncodePrefixed(bytes))

\* serde_with::DisplayFromStr, serialize_as: collect_str of Display
AmountToJson(x) == JsonString(U64Display(x))

ToJson(r) ==
    [k \in FIELD_NAMES |->
        CASE k = "source_address" -> FixedToJson(r.source_address)
          [] k = "validator_pubkey" -> FixedToJson(r.validator_pubkey)
          [] k = "amount" -> AmountToJson(r.amount)]

\* <FixedBytes<N> as Deserialize>: visit_str decodes hex into [u8; N]
FixedFromJson(v, n) ==
    IF ~v.str THEN TxtErr("invalid type") ELSE DecodeHexFixed(v.text, n)

\* serde_with::DisplayFromStr, deserialize_as: visit_str calls FromStr
AmountFromJson(v) ==
    IF ~v.str THEN TxtErr("invalid type") ELSE U64FromStr(v.text)

ParseErr(e) == [ok |-> FALSE, err |-> e, val |-> NoRequest]

\* unknown keys are skipped; a field that never appeared is "missing field"
FromJson(o) ==
    LET has(k) == k \in DOMAIN o
        a == IF has("source_address")
             THEN FixedFromJson(o["source_address"], ADDRESS_LEN) ELSE TxtOk(<<>>)
        k == IF has("validator_pubkey")
             THEN FixedFromJson(o["validator_pubkey"], PUBKEY_LEN) ELSE TxtOk(<<>>)
        m == IF has("amount") THEN AmountFromJson(o["amount"]) ELSE TxtOk(<<>>)
    IN  IF ~a.ok THEN ParseErr(a.err)
        ELSE IF ~k.ok THEN ParseErr(k.err)
        ELSE IF ~m.ok THEN ParseErr(m.err)
        ELSE IF \E f \in FIELD_NAMES : ~has(f) THEN ParseErr("missing field")
        ELSE [ok |-> TRUE, err |-> "",
              val |-> [source_address |-> a.val, validator_pubkey |-> k.val,
                       amount |-> m.val]]

-----------------------------------------------------------------------------
(* The values the tests build, and further amounts at the edges of the     *)
(* integer encoding                                                        *)

TEST_ADDRESS_1 ==
    <<"0", "x", "a", "E", "0", "E", "8", "7", "7", "0", "1", "4", "7", "A", "a", "A",
      "6", "8", "2", "8", "a", "0", "D", "6", "f", "6", "4", "2", "5", "0", "4", "6",
      "6", "3", "F", "1", "0", "F", "7", "d", "1", "E">>

TEST_ADDRESS_2 ==
    <<"0", "x", "f", "8", "6", "f", "8", "D", "6", "A", "7", "d", "2", "A", "F", "4",
      "3", "9", "2", "4", "5", "c", "1", "1", "4", "5", "d", "8", "8", "B", "0", "4",
      "d", "A", "f", "2", "d", "7", "e", "5", "0", "9">>

TEST_PUBKEY_1 ==
    <<"8", "e", "8", "d", "8", "7", "4", "9", "f", "6", "b", "c", "7", "9", "b", "7",
      "8", "b", "e", "7", "c", "c", "6", "e", "4", "9", "f", "f", "6", "4", "0", "e",
      "6", "0", "8", "4", "5", "4", "8", "4", "0", "c", "3", "6", "0", "b", "3", "4",
      "4", "c", "3", "a", "4", "d", "9", "b", "7", "4", "2", "8", "e", "2", "8", "0",
      "e", "7", "f", "4", "0", "d", "2", "2", "7", "1", "b", "a", "d", "6", "5", "d",
      "8", "c", "b", "b", "f", "d", "d", "4", "3", "c", "b", "8", "7", "9", "3", "b">>

TEST_PUBKEY_2 ==
    <<"a", "8", "5", "d", "7", "a", "6", "a", "a", "9", "0", "e", "e", "d", "e", "b",
      "e", "1", "0", "3", "b", "8", "d", "4", "d", "3", "d", "c", "8", "6", "0", "0",
      "3", "a", "e", "a", "8", "b", "6", "c", "8", "1", "5", "9", "d", "9", "d", "5",
      "0", "f", "7", "6", "8", "5", "8", "2", "8", "b", "c", "9", "7", "d", "2", "1",
      "1", "b", "2", "c", "5", "1", "2", "b", "1", "d", "c", "b", "b", "8", "d", "6",
      "3", "b", "6", "0", "a", "5", "6", "c", "9", "1", "d", "d", "a", "8", "e", "a">>

TEST_JSON_ADDRESS ==
    <<"0", "x", "A", "E", "0", "E", "8", "7", "7", "0", "1", "4", "7", "A", "a", "A",
      "6", "8", "2", "8", "a", "0", "D", "6", "f", "6", "4", "2", "5", "0", "4", "6",
      "6", "3", "F", "1", "0", "F", "7", "d", "1", "E">>

\* Address::from_str and hex!: both decode hexadecimal text
AddressFromStr(s) == DecodeHexFixed(s, ADDRESS_LEN).val

HexLiteral(s) == DecodeHexFixed(s, PUBKEY_LEN).val

Addresses == {AddressFromStr(TEST_ADDRESS_1), AddressFromStr(TEST_ADDRESS_2)}

Pubkeys == {HexLiteral(TEST_PUBKEY_1), HexLiteral(TEST_PUBKEY_2)}

Amounts ==
    {<<0, 0, 0, 0, 0, 0, 0, 0>>,
     <<0, 0, 0, 0, 0, 0, 0, 1>>,
     <<0, 0, 0, 0, 0, 0, 0, 9>>,
     <<0, 0, 0, 0, 0, 0, 0, 10>>,
     <<0, 0, 0, 0, 0, 0, 0, 19>>,
     <<0, 0, 0, 0, 0, 0, 0, 127>>,
     <<0, 0, 0, 0, 0, 0, 0, 128>>,
     <<0, 0, 0, 0, 0, 0, 0, 255>>,
     <<0, 0, 0, 0, 0, 0, 1, 0>>,
     <<0, 0, 0, 0, 0, 0, 1, 98>>,
     <<0, 0, 0, 1, 0, 0, 0, 0>>,
     <<128, 0, 0, 0, 0, 0, 0, 0>>,
     <<255, 255, 255, 255, 255, 255, 255, 255>>}

DefaultRequest ==
    [source_address |-> Repeat(0, ADDRESS_LEN),
     validator_pubkey |-> Repeat(0, PUBKEY_LEN),
     amount |-> Repeat(0, U64_BYTES)]

TestJson ==
    [k \in {"sourceAddress", "validatorPubkey", "amount"} |->
        CASE k = "sourceAddress" -> JsonString(TEST_JSON_ADDRESS)
          [] k = "validatorPubkey" -> JsonString(<<"0", "x">> \o TEST_PUBKEY_1)
          [] k = "amount" -> JsonString(<<"0", "x", "1">>)]

-----------------------------------------------------------------------------
(* Bounds of the inputs that are tried *)

\* how far a fixed-width RLP payload is made shorter or longer (bytes)
MaxLenDelta == 1

\* how many bytes are appended, cut off, inserted or mis-declared
MaxExtra == 2

\* how far a hex string is made shorter or longer (characters)
MaxTextDelta == 2

Deltas(n) == (-n .. n) \ {0}

-----------------------------------------------------------------------------
(* Input buffers for decode that differ from an encoding in one respect *)

Resize(s, n) == IF n <= Len(s) THEN Take(s, n) ELSE s \o Repeat(0, n - Len(s))

Frame(payload) == HeaderEncode(TRUE, Len(payload)) \o payload

\* amount items that are not the canonical encoding of any u64
LEADING_ZERO_ITEMS ==
    {<<0>>, <<130, 0, 1>>, <<136, 0, 1, 2, 3, 4, 5, 6, 7>>}

WRAPPED_SINGLE_BYTE_ITEMS == {<<129, 0>>, <<129, 5>>, <<129, 127>>}

OVERLONG_ITEMS ==
    {<<137, 1, 0, 0, 0, 0, 0, 0, 0, 0>>,
     <<138, 255, 255, 255, 255, 255, 255, 255, 255, 255, 255>>}

OTHER_BAD_ITEMS == {<<184, 1, 200>>, <<192>>, <<193, 1>>}

BadAmountItems ==
    LEADING_ZERO_ITEMS \cup WRAPPED_SINGLE_BYTE_ITEMS \cup OVERLONG_ITEMS
        \cup OTHER_BAD_ITEMS

NotRun == DecErr("not run")

NotParsed == ParseErr("not run")

NoJson == [k \in {} |-> JsonString(<<>>)]

-----------------------------------------------------------------------------
(* The state machine *)

Init ==
    /\ req = DefaultRequest
    /\ buf = <<>>
    /\ origin = "none"
    /\ decoded = NotRun
    /\ text = NoJson
    /\ json = NoJson
    /\ form = "none"
    /\ parsed = NotParsed

\* WithdrawalRequest { source_address, validator_pubkey, amount }
New(a, k, m) ==
    /\ origin = "none" /\ text = NoJson /\ form = "none"
    /\ req' = [source_address |-> a, validator_pubkey |-> k, amount |-> m]
    /\ buf' = <<>>
    /\ origin' = "none"
    /\ decoded' = NotRun
    /\ text' = NoJson
    /\ json' = NoJson
    /\ form' = "none"
    /\ parsed' = NotParsed

\* original_request.encode(&mut buf)
Encode ==
    /\ origin = "none"
    /\ text = NoJson /\ form = "none"
    /\ buf' = RlpEncode(req)
    /\ origin' = "encode"
    /\ UNCHANGED <<req, decoded, text, json, form, parsed>>

SetBuf(b, how) ==
    /\ origin = "encode"
    /\ decoded = NotRun
    /\ buf' = b
    /\ origin' = how
    /\ UNCHANGED <<req, decoded, text, json, form, parsed>>

AlterAddressLen(d) ==
    SetBuf(Frame(BytesEncode(Resize(req.source_address, ADDRESS_LEN + d))
                    \o BytesEncode(req.validator_pubkey)
                    \o U64Encode(req.amount)),
           "address_len")

AlterPubkeyLen(d) ==
    SetBuf(Frame(BytesEncode(req.source_address)
                    \o BytesEncode(Resize(req.validator_pubkey, PUBKEY_LEN + d))
                    \o U64Encode(req.amount)),
           "pubkey_len")

AlterAmount(item) ==
    SetBuf(Frame(BytesEncode(req.source_address)
                    \o BytesEncode(req.validator_pubkey)
                    \o item),
           "amount_item")

AlterDeclaredLen(d) ==
    LET body == Drop(buf, HeaderLength(RlpPayloadLength(req)))
    IN  SetBuf(HeaderEncode(TRUE, Len(body) + d) \o body, "declared_len")

AppendTrailing(n, b) == SetBuf(buf \o Repeat(b, n), "trailing")

Truncate(n) == SetBuf(Take(buf, Len(buf) - n), "truncated")

OuterAsString ==
    SetBuf(<<buf[1] - LONG_LIST_CODE + LONG_STRING_CODE>> \o Tail(buf), "not_list")

InsertExtraItems(n) ==
    SetBuf(Frame(BytesEncode(req.source_address)
                    \o BytesEncode(req.validator_pubkey)
                    \o U64Encode(req.amount)
                    \o Repeat(EMPTY_STRING_CODE, n)),
           "extra_items")

\* WithdrawalRequest::decode(&mut &buf[..])
Decode ==
    /\ origin # "none"
    /\ decoded = NotRun
    /\ decoded' = RlpDecode(buf)
    /\ UNCHANGED <<req, buf, origin, text, json, form, parsed>>

-----------------------------------------------------------------------------
(* Input objects for from_str that differ from a serialized object, or     *)
(* from the object of test_serde_withdrawal_request, in one respect        *)

CamelCase(k) ==
    CASE k = "source_address" -> "sourceAddress"
      [] k = "validator_pubkey" -> "validatorPubkey"
      [] OTHER -> k

SnakeCase(k) ==
    CASE k = "sourceAddress" -> "source_address"
      [] k = "validatorPubkey" -> "validator_pubkey"
      [] OTHER -> k

ToCamelKeys(o) ==
    [k \in {CamelCase(f) : f \in DOMAIN o} |-> o[CHOOSE f \in DOMAIN o : CamelCase(f) = k]]

ToSnakeKeys(o) ==
    [k \in {SnakeCase(f) : f \in DOMAIN o} |-> o[CHOOSE f \in DOMAIN o : SnakeCase(f) = k]]

\* the key under which object o carries the field
KeyOf(o, field) == IF field \in DOMAIN o THEN field ELSE CamelCase(field)

HEX_FIELDS == {"source_address", "validator_pubkey"}

UpperChar(c) ==
    IF \E i \in 1..16 : HEX_CHARS_LOWER[i] = c
    THEN HEX_CHARS_UPPER[CHOOSE i \in 1..16 : HEX_CHARS_LOWER[i] = c]
    ELSE c

LowerChar(c) ==
    IF \E i \in 1..16 : HEX_CHARS_UPPER[i] = c
    THEN HEX_CHARS_LOWER[CHOOSE i \in 1..16 : HEX_CHARS_UPPER[i] = c]
    ELSE c

\* the digits after the two-character prefix in upper case: all of them, or
\* every other one
Recased(t, mode) ==
    [i \in 1..Len(t) |->
        IF i > 2 /\ (mode = "upper" \/ i % 2 = 1) THEN UpperChar(t[i])
        ELSE LowerChar(t[i])]

ResizedText(t, d) ==
    IF d < 0 THEN Take(t, Len(t) + d) ELSE t \o Repeat("0", d)

WithText(o, field, t) == [o EXCEPT ![KeyOf(o, field)] = JsonString(t)]

TextOf(o, field) == o[KeyOf(o, field)].text

NON_HEX_CHARS == {"g", "-"}

AMOUNT_TEXTS ==
    {<<"0", "x", "1">>, <<"0", "x", "a">>, <<"0", "x", "0">>, <<"0", "x">>,
     <<"0", "x", "f", "f", "f", "f", "f", "f", "f", "f", "f", "f", "f", "f", "f", "f", "f", "f">>,
     <<"1">>, <<"1", "0">>, <<"0">>, <<"+", "5">>, <<"0", "0", "7">>,
     <<>>, <<"z", "z">>, <<"-", "1">>, <<"1", ".", "5">>, <<"a">>,
     <<"1", "8", "4", "4", "6", "7", "4", "4", "0", "7", "3", "7", "0", "9", "5", "5", "1", "6", "1", "5">>,
     <<"1", "8", "4", "4", "6", "7", "4", "4", "0", "7", "3", "7", "0", "9", "5", "5", "1", "6", "1", "6">>}

\* serde_json::to_string(&withdrawal_request)
Serialize ==
    /\ origin = "none"
    /\ text = NoJson
    /\ text' = ToJson(req)
    /\ UNCHANGED <<req, buf, origin, decoded, json, form, parsed>>

\* the objects an input is made from: what to_string produced, and the
\* object the test parses
Bases == (IF text = NoJson THEN {} ELSE {text}) \cup {TestJson}

SetJson(o, how) ==
    /\ origin = "none"
    /\ form = "none"
    /\ json' = o
    /\ form' = how
    /\ parsed' = NotParsed
    /\ UNCHANGED <<req, buf, origin, decoded, text>>

Feed(base) == SetJson(base, "same")

RenameKeys(base) ==
    SetJson(IF "source_address" \in DOMAIN base THEN ToCamelKeys(base)
            ELSE ToSnakeKeys(base), "rekey")

Recase(base, field, mode) ==
    SetJson(WithText(base, field, Recased(TextOf(base, field), mode)), "recase")

DropPrefix(base, field) ==
    SetJson(WithText(base, field, Drop(TextOf(base, field), 2)), "no_prefix")

ResizeText(base, field, d) ==
    SetJson(WithText(base, field, ResizedText(TextOf(base, field), d)), "resize")

CorruptChar(base, field, pos, c) ==
    SetJson(WithText(base, field, [TextOf(base, field) EXCEPT ![pos] = c]),
            "corrupt")

SetAmountText(base, t) == SetJson(WithText(base, "amount", t), "amount_text")

SetAmountNumber(base) ==
    SetJson([base EXCEPT !["amount"] = JsonNumber(U64Display(req.amount))],
            "amount_number")

\* serde_json::from_str(json_data)
Deserialize ==
    /\ form # "none"
    /\ parsed = NotParsed
    /\ parsed' = FromJson(json)
    /\ UNCHANGED <<req, buf, origin, decoded, text, json, form>>

\* serde_json::to_string of the value from_str returned
Reserialize ==
    /\ parsed.ok
    /\ req' = parsed.val
    /\ text' = ToJson(parsed.val)
    /\ UNCHANGED <<buf, origin, decoded, json, form, parsed>>

Next ==
    \/ \E a \in Addresses, k \in Pubkeys, m \in Amounts : New(a, k, m)
    \/ Encode
    \/ \E d \in Deltas(MaxLenDelta) : AlterAddressLen(d)
    \/ \E d \in Deltas(MaxLenDelta) : AlterPubkeyLen(d)
    \/ \E item \in BadAmountItems : AlterAmount(item)
    \/ \E d \in Deltas(MaxExtra) : AlterDeclaredLen(d)
    \/ \E n \in 1..MaxExtra, b \in {0, EMPTY_STRING_CODE} : AppendTrailing(n, b)
    \/ \E n \in 1..MaxExtra : Truncate(n)
    \/ OuterAsString
    \/ \E n \in 1..MaxExtra : InsertExtraItems(n)
    \/ Decode
    \/ Serialize
    \/ \E base \in Bases : Feed(base)
    \/ \E base \in Bases : RenameKeys(base)
    \/ \E base \in Bases, f \in HEX_FIELDS, mode \in {"upper", "mixed"} :
            Recase(base, f, mode)
    \/ \E base \in Bases, f \in HEX_FIELDS : DropPrefix(base, f)
    \/ \E base \in Bases, f \in HEX_FIELDS, d \in Deltas(MaxTextDelta) :
            ResizeText(base, f, d)
    \/ \E base \in Bases, f \in HEX_FIELDS, pos \in {3, 42}, c \in NON_HEX_CHARS :
            CorruptChar(base, f, pos, c)
    \/ \E base \in Bases, t \in AMOUNT_TEXTS : SetAmountText(base, t)
    \/ \E base \in Bases : SetAmountNumber(base)
    \/ Deserialize
    \/ Reserialize

Spec == Init /\ [][Next]_vars

-----------------------------------------------------------------------------
(* Properties *)

Decoded == decoded # NotRun

Parsed == parsed # NotParsed

\* where the amount item starts in an encoding: after the two-byte list
\* header and the two prefixed fixed-width strings
AmountItem(b) == Drop(b, 2 + (1 + ADDRESS_LEN) + (1 + PUBKEY_LEN))

\* the payload of a string item: the item itself when it is one byte below
\* 0x80, else what follows the one-byte prefix
ItemPayload(item) ==
    IF Len(item) = 1 /\ item[1] < 128 THEN item ELSE Tail(item)

LeftPad8(s) == Repeat(0, 8 - Len(s)) \o s

IsLowerHexText(t, n) ==
    /\ Len(t) = n
    /\ t[1] = "0" /\ t[2] = "x"
    /\ \A i \in 3..n : \E j \in 1..16 : HEX_CHARS_LOWER[j] = t[i]

LowerText(t) == [i \in 1..Len(t) |-> LowerChar(t[i])]

HasPrefix(t) == Len(t) >= 2 /\ t[1] = "0" /\ t[2] = "x"

\* C1: encoding a request and decoding the bytes produced succeeds and
\* returns a request equal to the original in all three fields.
C1_BinaryRoundTrip ==
    (origin = "encode" /\ Decoded) =>
        /\ decoded.ok
        /\ decoded.val.source_address = req.source_address
        /\ decoded.val.validator_pubkey = req.validator_pubkey
        /\ decoded.val.amount = req.amount

C1_Witness ==
    /\ origin = "encode" /\ Decoded /\ decoded.ok
    /\ decoded.val = req
    /\ req.amount = Repeat(255, 8)
    /\ req.source_address = AddressFromStr(TEST_ADDRESS_1)

\* the textual amount the documented form asks for: 0x, then the hex digits
\* of the value without leading zeros, at least one digit
HexQuantity(x) ==
    LET d == HexDigits(TrimLeadingZeros(x))
    IN  IF d = <<>> THEN <<"0", "x", "0">>
        ELSE IF d[1] = "0" THEN <<"0", "x">> \o Tail(d)
        ELSE <<"0", "x">> \o d

IsHexQuantity(t) ==
    /\ HasPrefix(t)
    /\ Len(t) \in 3..18
    /\ \A i \in 3..Len(t) : IsHexChar(t[i])
    /\ (Len(t) > 3 => t[3] # "0")

QuantityValue(t) ==
    LET d == Drop(t, 2)
    IN  DecodeHexFixed(Repeat("0", 16 - Len(d)) \o d, 8).val

\* C2: the textual form writes amount as a 0x-prefixed hex string without
\* leading zeros (1 is "0x1"), and reading an object whose amount is such a
\* string succeeds and yields the integer it denotes.
C2_AmountIsHexQuantity ==
    /\ text # NoJson => text["amount"] = JsonString(HexQuantity(req.amount))
    /\ (/\ Parsed
        /\ form = "amount_text"
        /\ DOMAIN json = FIELD_NAMES
        /\ IsHexQuantity(json["amount"].text)) =>
            (parsed.ok /\ parsed.val.amount = QuantityValue(json["amount"].text))

CAMEL_KEYS == {"sourceAddress", "validatorPubkey", "amount"}

\* C3: the textual form uses exactly the keys sourceAddress, validatorPubkey
\* and amount: writing a request emits those three keys, and reading an
\* object that carries them with well-formed values succeeds.
C3_CamelCaseKeys ==
    /\ text # NoJson => DOMAIN text = CAMEL_KEYS
    /\ (Parsed /\ form = "rekey" /\ DOMAIN json = CAMEL_KEYS
            /\ json = ToCamelKeys(ToJson(req))) => parsed.ok

\* C4: writing a request always emits source_address and validator_pubkey as
\* lowercase 0x-prefixed hex of 42 and 98 characters; a request read from
\* upper-case or mixed-case hex is written back as the all-lowercase string
\* for the same bytes.
C4_LowercaseOutput ==
    /\ text # NoJson =>
        /\ text["source_address"].str /\ text["validator_pubkey"].str
        /\ IsLowerHexText(text["source_address"].text, 42)
        /\ IsLowerHexText(text["validator_pubkey"].text, 98)
    /\ (text # NoJson /\ Parsed /\ parsed.ok /\ req = parsed.val) =>
        \A f \in HEX_FIELDS :
            LET t == json[f].text
            IN  text[f].text = LowerText(IF HasPrefix(t) THEN t ELSE <<"0", "x">> \o t)

C4_Witness ==
    /\ text # NoJson /\ Parsed /\ parsed.ok /\ req = parsed.val
    /\ form = "recase"
    /\ json["source_address"].text # text["source_address"].text
    /\ text["source_address"].text = LowerText(TEST_ADDRESS_1)

\* C5: a list-framed input whose first string payload is not 20 bytes, or
\* whose second string payload is not 48 bytes, is rejected with a decode
\* error and no request is returned.
C5_FixedWidthEnforced ==
    (Decoded /\ origin \in {"address_len", "pubkey_len"}) =>
        (~decoded.ok /\ decoded.err = "UnexpectedLength" /\ decoded.val = NoRequest)

C5_Witness ==
    /\ Decoded /\ origin = "pubkey_len" /\ ~decoded.ok
    /\ buf[2 + 1 + ADDRESS_LEN + 1] = 128 + PUBKEY_LEN + 1

\* C6: encode emits amount as its minimal big-endian byte string: zero has
\* an empty payload, the payload is 0 to 8 bytes and never starts with a
\* zero byte, and a single byte below 0x80 is emitted alone, without a
\* length prefix.
C6_CanonicalAmount ==
    origin = "encode" =>
        LET item == AmountItem(buf)
            payload == IF item = <<128>> THEN <<>> ELSE ItemPayload(item)
        IN  /\ item # <<>>
            /\ (req.amount = Repeat(0, 8) <=> payload = <<>>)
            /\ Len(payload) \in 0..8
            /\ (payload # <<>> => payload[1] # 0)
            /\ LeftPad8(payload) = req.amount
            /\ IF Len(payload) = 1 /\ payload[1] < 128 THEN item = payload
               ELSE item = <<128 + Len(payload)>> \o payload

C6_Witness ==
    /\ origin = "encode"
    /\ AmountItem(buf) = <<127>>
    /\ req.amount = <<0, 0, 0, 0, 0, 0, 0, 127>>

\* C7: decode rejects an amount whose payload has a leading zero byte, is a
\* single byte below 0x80 wrapped in a length prefix, or is longer than
\* 8 bytes: it returns a decode error, not a request.
C7_NonCanonicalAmountRejected ==
    (Decoded /\ origin = "amount_item") =>
        LET item == AmountItem(buf)
        IN  /\ item \in LEADING_ZERO_ITEMS =>
                (~decoded.ok /\ decoded.err = "LeadingZero")
            /\ item \in WRAPPED_SINGLE_BYTE_ITEMS =>
                (~decoded.ok /\ decoded.err = "NonCanonicalSingleByte")
            /\ item \in OVERLONG_ITEMS =>
                (~decoded.ok /\ decoded.err = "Overflow")
            /\ ~decoded.ok /\ decoded.val = NoRequest

C7_Witness ==
    /\ Decoded /\ origin = "amount_item"
    /\ AmountItem(buf) = <<130, 0, 1>>
    /\ decoded.err = "LeadingZero"

\* C8 as stated: decode fails whenever the outer item is not a list, the
\* declared list length exceeds the bytes available, the three fields
\* consume fewer or more bytes than declared, or bytes follow the list.
C8_Original ==
    (Decoded /\ origin \in {"not_list", "declared_len", "extra_items",
                            "truncated", "trailing"}) => ~decoded.ok

\* C8, amended: decode fails when the outer item is not a list, the declared
\* list length exceeds the bytes available, or the three fields consume
\* fewer or more bytes than declared; bytes that follow the list are no
\* error: decode returns the request and leaves them in the buffer.
C8_FramingEnforced ==
    /\ (Decoded /\ origin = "not_list") =>
            (~decoded.ok /\ decoded.err = "UnexpectedString")
    /\ (Decoded /\ origin \in {"declared_len", "truncated"}) =>
            (~decoded.ok /\ decoded.err \in {"InputTooShort", "ListLengthMismatch"})
    /\ (Decoded /\ origin = "extra_items") =>
            (~decoded.ok /\ decoded.err = "ListLengthMismatch")
    /\ (Decoded /\ origin = "trailing") =>
            /\ decoded.ok
            /\ decoded.val = req
            /\ decoded.rest # <<>>
            /\ buf = RlpEncode(req) \o decoded.rest

C8_Witness ==
    /\ Decoded /\ origin = "trailing" /\ decoded.ok
    /\ decoded.rest = <<0, 0>>

RECURSIVE TrimLeadingDecZeros(_)
TrimLeadingDecZeros(d) ==
    IF d = <<>> THEN <<>>
    ELSE IF Head(d) = "0" THEN TrimLeadingDecZeros(Tail(d))
    ELSE d

IsDecimalU64(t) ==
    LET d == IF t # <<>> /\ t[1] = "+" THEN Tail(t) ELSE t
        max == <<"1", "8", "4", "4", "6", "7", "4", "4", "0", "7",
                 "3", "7", "0", "9", "5", "5", "1", "6", "1", "5">>
        n == TrimLeadingDecZeros(d)
    IN  /\ d # <<>>
        /\ \A i \in 1..Len(d) : IsDecChar(d[i])
        /\ \/ Len(n) < Len(max)
           \/ /\ Len(n) = Len(max)
              /\ \/ n = max
                 \/ \E i \in 1..Len(n) :
                        /\ \A j \in 1..(i - 1) : n[j] = max[j]
                        /\ DecVal(n[i]) < DecVal(max[i])

C10_WireLayout ==
    origin = "encode" =>
        LET item == AmountItem(buf)
            addrAt == 2
            keyAt == addrAt + 1 + ADDRESS_LEN
        IN  /\ buf[1] = 248
            /\ buf[2] = (1 + ADDRESS_LEN) + (1 + PUBKEY_LEN) + Len(item)
            /\ Len(buf) = 2 + buf[2]
            /\ buf[addrAt + 1] = 128 + ADDRESS_LEN
            /\ SubSeq(buf, addrAt + 2, addrAt + 1 + ADDRESS_LEN) = req.source_address
            /\ buf[keyAt + 1] = 128 + PUBKEY_LEN
            /\ SubSeq(buf, keyAt + 2, keyAt + 1 + PUBKEY_LEN) = req.validator_pubkey
            /\ item # <<>>
            /\ LeftPad8(IF item = <<128>> THEN <<>> ELSE ItemPayload(item)) = req.amount

C10_Witness ==
    /\ origin = "encode"
    /\ Len(buf) = 75
    /\ buf[2] = 73
    /\ req.amount = <<0, 0, 0, 0, 0, 0, 1, 98>>

====
